---- MODULE Spec2Model ----
(***************************************************************************)
(* The streaming session engine of the chat frontend:                      *)
(*   - useAgentChat (src/frontend/src/services/AgentInfoService.ts         *)
(*     149-381): ConversationState, sendMessage, handleStreamingResponse,  *)
(*     stopStreaming, clearConversation;                                   *)
(*   - StreamingService.streamAgent (same file, 77-140): the frame decoder.*)
(* JavaScript runs the handlers one at a time: a handler, and the chain of *)
(* promise continuations (microtasks) it triggers, runs to completion      *)
(* before the next task.  Each action below is one such task.              *)
(***************************************************************************)
EXTENDS Integers, Sequences, FiniteSets, TLC

\* ---------------------------------------------------------------- bounds
\* sendMessage calls plus delivered events in one behaviour
MaxWork == 4
\* the same, in the behaviours that follow the tool panel over two turns
MaxPanelWork == 5

\* ------------------------------------------------------------ JS values
\* a metadata key that is absent (JavaScript undefined)
Undefined == "undefined"
\* ConversationState.error when no error is set (JavaScript null)
Null == "null"
\* ToolCall.duration when the field is absent
NoDuration == -1
\* ChatMessage.metadata.total_events when the field is absent
NoTotal == -1

ToolNames == {Undefined, "calc"}
CorrIds == {Undefined, "c1"}

Ev(t, c, n, cid, rid, raw) ==
    [type |-> t, content |-> c, tool_name |-> n, call_id |-> cid,
     response_id |-> rid, raw_response |-> raw]

\* The frames the server may send (StreamingEvent, src/unnamed/part_001 8-51),
\* over small payload sets.
ToolEvents ==
    {Ev("tool_call", "", n, cid, Undefined, Undefined) :
              n \in ToolNames, cid \in CorrIds}
    \cup {Ev("tool_response", "", n, Undefined, rid, "r") :
              n \in ToolNames, rid \in CorrIds}
    \cup {Ev("error", "e", Undefined, Undefined, Undefined, Undefined)}

SessionEvents ==
    {Ev("content", c, Undefined, Undefined, Undefined, Undefined) : c \in {"a", "b"}}
    \cup {Ev("error", "e", Undefined, Undefined, Undefined, Undefined)}
    \cup {Ev(t, "", Undefined, Undefined, Undefined, Undefined) :
              t \in {"complete", "thinking"}}

\* ---------------------------------------------------------------- state
VARIABLES
    messages,           \* ConversationState.messages
    isLoading,          \* ConversationState.isLoading
    isStreaming,        \* ConversationState.isStreaming
    error,              \* ConversationState.error
    toolCalls,          \* ConversationState.toolCalls
    streamingEvents,    \* ConversationState.streamingEvents
    abortControllerRef, \* abortControllerRef.current: 0 (null) or a send's controller
    sends,              \* one record per sendMessage call: its closure and position
    now,                \* the last value read from Date.now()
    stopCalled,         \* history: stopStreaming() was called during a streaming send
    budget,             \* the bound on sends plus events of this behaviour
    \* one call of StreamingService.streamAgent, seen at the byte level
    wire,               \* the bytes of the response body
    rpos,               \* how many of them reader.read() has handed over
    held,               \* bytes of an incomplete character kept by the TextDecoder
    buffer,             \* streamAgent's buffer
    emitted,            \* the events passed to onEvent, in order
    dpc,                \* "idle", "read" (in the while loop) or "returned"
    completedHeld       \* history: an event came from a line begun in an earlier chunk

decoder == <<wire, rpos, held, buffer, emitted, dpc, completedHeld>>

vars == <<messages, isLoading, isStreaming, error, toolCalls, streamingEvents,
          abortControllerRef, sends, now, stopCalled, budget, decoder>>

hook == <<messages, isLoading, isStreaming, error, toolCalls, streamingEvents,
          abortControllerRef, sends, now, stopCalled, budget>>

conv == <<messages, isLoading, isStreaming, error, toolCalls, streamingEvents>>

Last(s) == s[Len(s)]

\* ------------------------------------------------------- state updaters
\* addMessage: append with a fresh id
addMessage(msgs, id, type, content, streaming) ==
    Append(msgs, [id |-> id, type |-> type, content |-> content,
                  streaming |-> streaming, events |-> <<>>,
                  total_events |-> NoTotal])

\* updateMessage(assistantMessageId, {content: fullContent, events: [...events]})
updateMessageContent(msgs, messageId, fullContent, events) ==
    [i \in DOMAIN msgs |->
        IF msgs[i].id = messageId
        THEN [msgs[i] EXCEPT !.content = fullContent, !.events = events]
        ELSE msgs[i]]

\* updateMessage(assistantMessageId, {streaming: false, metadata: {total_events}})
updateMessageComplete(msgs, messageId, total) ==
    [i \in DOMAIN msgs |->
        IF msgs[i].id = messageId
        THEN [msgs[i] EXCEPT !.streaming = FALSE, !.total_events = total]
        ELSE msgs[i]]

\* a reducer that replaces the accumulated text by the event's text
appendContent_replaces(fullContent, event) == event.content

\* fullContent += event.content
appendContent(fullContent, event) == fullContent \o event.content

\* addToolCall({name: tool_name || 'unknown', status: 'running'})
addToolCall(calls, id, event, t) ==
    Append(calls, [id |-> id,
                   name |-> IF event.tool_name = Undefined THEN "unknown"
                            ELSE event.tool_name,
                   status |-> "running", timestamp |-> t,
                   duration |-> NoDuration, result |-> Undefined,
                   error |-> Undefined,
                   \* history: the call_id the event carried (line 299 reads it
                   \* into callId and never uses it)
                   callId |-> event.call_id])

\* case 'tool_response': every call with that name that is running
onToolResponse(calls, event, t) ==
    [i \in DOMAIN calls |->
        IF calls[i].name = event.tool_name /\ calls[i].status = "running"
        THEN [calls[i] EXCEPT !.status = "completed",
                              !.result = event.raw_response,
                              !.duration = t - calls[i].timestamp]
        ELSE calls[i]]

\* an error case that leaves the tool calls alone
onErrorEvent_keeps(calls, event) == calls

\* case 'error': every running call becomes error
onErrorEvent(calls, event) ==
    [i \in DOMAIN calls |->
        IF calls[i].status = "running"
        THEN [calls[i] EXCEPT !.status = "error", !.error = event.content]
        ELSE calls[i]]

\* ----------------------------------------------------------------- Init
HookInitWith(b) ==
    /\ budget = b
    /\ messages = <<>>
    /\ isLoading = FALSE
    /\ isStreaming = FALSE
    /\ error = Null
    /\ toolCalls = <<>>
    /\ streamingEvents = <<>>
    /\ abortControllerRef = 0
    /\ sends = <<>>
    /\ now = 0
    /\ stopCalled = FALSE

HookInit == HookInitWith(MaxWork)

\* no streamAgent call is looked at byte by byte
DecoderIdle ==
    /\ wire = <<>>
    /\ rpos = 0
    /\ held = <<>>
    /\ buffer = <<>>
    /\ emitted = <<>>
    /\ dpc = "idle"
    /\ completedHeld = FALSE

Init == HookInit /\ DecoderIdle

InFlight(s) == sends[s].pc \in {"fetch", "read"}
AnyInFlight == \E s \in DOMAIN sends : InFlight(s)
StreamInFlight == \E s \in DOMAIN sends : InFlight(s) /\ sends[s].useStreaming
Delivered == LET RECURSIVE Sum(_)
                 Sum(k) == IF k = 0 THEN 0 ELSE Len(sends[k].events) + Sum(k - 1)
             IN Sum(Len(sends))
Work == Len(sends) + Delivered

\* The ids addMessage and addToolCall make are `${Date.now()}-${random}`
\* strings; the model names them by what they are made for, which keeps them
\* distinct among the records that can meet.
userMessageId(s) == 2 * s - 1
assistantMessageId(s) == 2 * s
toolCallId(calls) == Len(calls) + 1

\* a finally block that forgets to reset the flags
finallyBlock_keepsFlags ==
    /\ UNCHANGED <<isLoading, isStreaming>>
    /\ abortControllerRef' = 0

\* sendMessage's finally block
finallyBlock ==
    /\ isLoading' = FALSE
    /\ isStreaming' = FALSE
    /\ abortControllerRef' = 0

\* ------------------------------------------------------------- actions
\* sendMessage(content, useStreaming) up to its first await: the user message,
\* the reset, the new AbortController and, when streaming, the assistant
\* message of handleStreamingResponse and the fetch of streamAgent.
\* `overlap` says whether the caller may call while a request is in flight
\* (the hook itself never refuses).
SendMessage(useStreaming, overlap) ==
    /\ UNCHANGED <<decoder, budget>>
    /\ Work < budget
    /\ overlap \/ ~AnyInFlight
    /\ LET s == Len(sends) + 1
           withUser == addMessage(messages, userMessageId(s), "user", "q", FALSE)
       IN /\ messages' = IF useStreaming
                         THEN addMessage(withUser, assistantMessageId(s),
                                         "assistant", "", TRUE)
                         ELSE withUser
          /\ sends' = Append(sends,
                 [pc |-> "fetch", useStreaming |-> useStreaming,
                  fullContent |-> "", events |-> <<>>, outcome |-> "pending"])
          /\ abortControllerRef' = s
    /\ isLoading' = TRUE
    /\ isStreaming' = useStreaming
    /\ error' = Null
    /\ streamingEvents' = <<>>
    /\ stopCalled' = FALSE
    /\ UNCHANGED <<toolCalls, now>>

\* The error strings of the failures the transport can produce.
FailMsg == "failed"
AbortMsg == "aborted"

\* a catch block that drops what the stream had produced
Rejected_dropsMessages(s, msg, how) ==
    /\ error' = msg
    /\ isLoading' = FALSE
    /\ isStreaming' = FALSE
    /\ abortControllerRef' = 0
    /\ sends' = [sends EXCEPT ![s].pc = "done", ![s].outcome = how,
                              ![s].events = <<>>]

\* sendMessage's catch and finally blocks after the awaited call rejected
Rejected(s, msg, how) ==
    /\ error' = msg
    /\ finallyBlock
    /\ sends' = [sends EXCEPT ![s].pc = "done", ![s].outcome = how]

\* await fetch(...) resolves with an OK response that has a body reader
FetchOk(s) ==
    /\ UNCHANGED <<decoder, budget>>
    /\ sends[s].pc = "fetch"
    /\ sends[s].useStreaming
    /\ sends' = [sends EXCEPT ![s].pc = "read"]
    /\ UNCHANGED <<messages, isLoading, isStreaming, error, toolCalls,
                   streamingEvents, abortControllerRef, now, stopCalled>>

\* fetch rejects, or the response is not OK, or it has no body reader
\* (streamAgent 84-104; AgentService.callAgent 16-31 for a non-streaming send)
FetchFail(s) ==
    /\ UNCHANGED <<decoder, budget>>
    /\ sends[s].pc = "fetch"
    /\ Rejected(s, FailMsg, "failed")
    /\ UNCHANGED <<messages, toolCalls, streamingEvents, now, stopCalled>>

\* the onEvent callback of handleStreamingResponse for one decoded frame,
\* with t the value of Date.now() during the call
onEvent(s, event, t) ==
    LET events == Append(sends[s].events, event)
        fullContent == IF event.type = "content"
                       THEN appendContent(sends[s].fullContent, event)
                       ELSE sends[s].fullContent
        id == assistantMessageId(s)
    IN /\ sends' = [sends EXCEPT ![s].events = events,
                                 ![s].fullContent = fullContent]
       /\ streamingEvents' = Append(streamingEvents, event)
       /\ messages' =
            CASE event.type = "content" ->
                   updateMessageContent(messages, id, fullContent, events)
              [] event.type = "complete" ->
                   updateMessageComplete(messages, id, Len(events))
              [] OTHER -> messages
       /\ toolCalls' =
            CASE event.type = "tool_call" ->
                   addToolCall(toolCalls, toolCallId(toolCalls), event, t)
              [] event.type = "tool_response" -> onToolResponse(toolCalls, event, t)
              [] event.type = "error" -> onErrorEvent(toolCalls, event)
              [] OTHER -> toolCalls
       /\ error' = IF event.type = "error" THEN event.content ELSE error
       /\ now' = t

\* The clock is read by the tool_call and tool_response cases only; it may
\* have advanced since it was last read.
ClockReadings(event) ==
    IF event.type \in {"tool_call", "tool_response"}
    THEN {now, now + 1}
    ELSE {now}

\* reader.read() yields a chunk whose next complete line is the frame `event`
Deliver(s, event) ==
    /\ UNCHANGED <<decoder, budget>>
    /\ sends[s].pc = "read"
    /\ Work < budget
    /\ \E t \in ClockReadings(event) : onEvent(s, event, t)
    /\ UNCHANGED <<isLoading, isStreaming, abortControllerRef, stopCalled>>

\* the stream closes (done) or a "[DONE]" line arrives: streamAgent returns
StreamEnd(s) ==
    /\ UNCHANGED <<decoder, budget>>
    /\ sends[s].pc = "read"
    /\ finallyBlock
    /\ sends' = [sends EXCEPT ![s].pc = "done", ![s].outcome = "ended"]
    /\ UNCHANGED <<messages, error, toolCalls, streamingEvents, now, stopCalled>>

\* reader.read() rejects: the connection failed mid-stream
ReadFail(s) ==
    /\ UNCHANGED <<decoder, budget>>
    /\ sends[s].pc = "read"
    /\ Rejected(s, FailMsg, "failed")
    /\ UNCHANGED <<messages, toolCalls, streamingEvents, now, stopCalled>>

\* handleSyncResponse: callAgent resolves, the assistant message is added
SyncResolve(s) ==
    /\ UNCHANGED <<decoder, budget>>
    /\ sends[s].pc = "fetch"
    /\ ~sends[s].useStreaming
    /\ messages' = addMessage(messages, assistantMessageId(s), "assistant", "s", FALSE)
    /\ finallyBlock
    /\ sends' = [sends EXCEPT ![s].pc = "done", ![s].outcome = "ended"]
    /\ UNCHANGED <<error, toolCalls, streamingEvents, now, stopCalled>>

\* stopStreaming: abort the controller in abortControllerRef, if any.  The
\* abort rejects the pending fetch or read of the request that holds the
\* controller's signal, and sendMessage's catch and finally run before any
\* other task.
stopStreaming ==
    /\ UNCHANGED <<decoder, budget>>
    /\ stopCalled' = (stopCalled \/ StreamInFlight)
    /\ IF abortControllerRef # 0 /\ InFlight(abortControllerRef)
       THEN /\ Rejected(abortControllerRef, AbortMsg, "aborted")
            /\ UNCHANGED <<messages, toolCalls, streamingEvents, now>>
       ELSE UNCHANGED <<messages, isLoading, isStreaming, error, toolCalls,
                        streamingEvents, abortControllerRef, sends, now>>

\* a clear that also ends the request in flight
clearConversation_aborts ==
    /\ UNCHANGED <<decoder, budget>>
    /\ messages' = <<>>
    /\ toolCalls' = <<>>
    /\ streamingEvents' = <<>>
    /\ error' = Null
    /\ isLoading' = FALSE
    /\ isStreaming' = FALSE
    /\ abortControllerRef' = 0
    /\ sends' = [s \in DOMAIN sends |->
                    IF InFlight(s)
                    THEN [sends[s] EXCEPT !.pc = "done", !.outcome = "aborted"]
                    ELSE sends[s]]
    /\ UNCHANGED <<now, stopCalled>>

clearConversation ==
    /\ UNCHANGED <<decoder, budget>>
    /\ messages' = <<>>
    /\ toolCalls' = <<>>
    /\ streamingEvents' = <<>>
    /\ error' = Null
    /\ UNCHANGED <<isLoading, isStreaming, abortControllerRef, sends, now,
                   stopCalled>>

\* The hook with its whole interface: a caller may send while a request is
\* in flight (sendMessage never refuses).  Streaming sends.
Next ==
    \/ SendMessage(TRUE, TRUE)
    \/ \E s \in DOMAIN sends : FetchOk(s)
    \/ \E s \in DOMAIN sends : FetchFail(s)
    \/ \E s \in DOMAIN sends : \E event \in SessionEvents : Deliver(s, event)
    \/ \E s \in DOMAIN sends : StreamEnd(s)
    \/ \E s \in DOMAIN sends : ReadFail(s)
    \/ stopStreaming
    \/ clearConversation

Spec == Init /\ [][Next]_vars

\* The transport ends every request: a pending fetch resolves or rejects, and
\* a stream that is being read closes or fails.
FetchSettles == \E s \in DOMAIN sends : FetchOk(s) \/ FetchFail(s)
ReadSettles == \E s \in DOMAIN sends : StreamEnd(s) \/ ReadFail(s)

\* The hook with its whole interface, streaming sends that may overlap, over
\* the frames that decide how a stream ends.
LiveEvents ==
    {Ev("error", "e", Undefined, Undefined, Undefined, Undefined),
     Ev("complete", "", Undefined, Undefined, Undefined, Undefined)}

NextLive ==
    \/ SendMessage(TRUE, TRUE)
    \/ \E s \in DOMAIN sends : FetchOk(s)
    \/ \E s \in DOMAIN sends : FetchFail(s)
    \/ \E s \in DOMAIN sends : \E event \in LiveEvents : Deliver(s, event)
    \/ \E s \in DOMAIN sends : StreamEnd(s)
    \/ \E s \in DOMAIN sends : ReadFail(s)
    \/ stopStreaming
    \/ clearConversation

SpecLive ==
    Init /\ [][NextLive]_vars /\ WF_vars(FetchSettles) /\ WF_vars(ReadSettles)

\* One turn at a time, as ModernChatInput drives the hook (its textarea is
\* disabled while isLoading, so nothing can be submitted): streaming and
\* non-streaming sends.
NextTurns ==
    \/ \E useStreaming \in BOOLEAN : SendMessage(useStreaming, FALSE)
    \/ \E s \in DOMAIN sends : FetchOk(s)
    \/ \E s \in DOMAIN sends : FetchFail(s)
    \/ \E s \in DOMAIN sends : \E event \in SessionEvents : Deliver(s, event)
    \/ \E s \in DOMAIN sends : StreamEnd(s)
    \/ \E s \in DOMAIN sends : ReadFail(s)
    \/ \E s \in DOMAIN sends : SyncResolve(s)
    \/ stopStreaming
    \/ clearConversation

SpecTurns == Init /\ [][NextTurns]_vars

\* One streaming turn at a time, with every shape of tool event.
NextTools ==
    \/ SendMessage(TRUE, FALSE)
    \/ \E s \in DOMAIN sends : FetchOk(s)
    \/ \E s \in DOMAIN sends : FetchFail(s)
    \/ \E s \in DOMAIN sends : \E event \in ToolEvents : Deliver(s, event)
    \/ \E s \in DOMAIN sends : StreamEnd(s)
    \/ \E s \in DOMAIN sends : ReadFail(s)
    \/ stopStreaming
    \/ clearConversation

SpecTools == Init /\ [][NextTools]_vars

\* One streaming turn at a time whose stream mixes text, one tool's call and
\* response, an error and the completion.
MixedEvents ==
    {Ev("content", "a", Undefined, Undefined, Undefined, Undefined),
     Ev("tool_call", "", "calc", "c1", Undefined, Undefined),
     Ev("tool_response", "", "calc", Undefined, "c1", "r"),
     Ev("error", "e", Undefined, Undefined, Undefined, Undefined),
     Ev("complete", "", Undefined, Undefined, Undefined, Undefined)}

NextMixed ==
    \/ SendMessage(TRUE, FALSE)
    \/ \E s \in DOMAIN sends : FetchOk(s)
    \/ \E s \in DOMAIN sends : FetchFail(s)
    \/ \E s \in DOMAIN sends : \E event \in MixedEvents : Deliver(s, event)
    \/ \E s \in DOMAIN sends : StreamEnd(s)
    \/ \E s \in DOMAIN sends : ReadFail(s)
    \/ stopStreaming
    \/ clearConversation

SpecMixed == Init /\ [][NextMixed]_vars

\* One streaming turn at a time in which the server reports a tool's end as a
\* tool_response or as a tool_result frame.
ResultEvents ==
    {Ev("tool_call", "", "calc", "c1", Undefined, Undefined),
     Ev("tool_response", "", "calc", Undefined, "c1", "r"),
     Ev("tool_result", "", "calc", Undefined, "c1", "r")}

NextResult ==
    \/ SendMessage(TRUE, FALSE)
    \/ \E s \in DOMAIN sends : FetchOk(s)
    \/ \E s \in DOMAIN sends : FetchFail(s)
    \/ \E s \in DOMAIN sends : \E event \in ResultEvents : Deliver(s, event)
    \/ \E s \in DOMAIN sends : StreamEnd(s)
    \/ \E s \in DOMAIN sends : ReadFail(s)
    \/ stopStreaming
    \/ clearConversation

SpecResult == Init /\ [][NextResult]_vars

\* What JSON.parse returns for a payload that is valid JSON but no event
\* object (null, a number): read as a StreamingEvent, every field of it is
\* undefined.  For null the switch on event.type throws, and streamAgent's
\* catch swallows that; for a number no case matches.  Either way the
\* callback has pushed the value and queued the streamingEvents update
\* before.
NotAnEvent == Ev(Undefined, Undefined, Undefined, Undefined, Undefined, Undefined)

\* One streaming turn at a time whose frames are text, the completion and
\* such a value.
FrameEvents ==
    {Ev("content", "a", Undefined, Undefined, Undefined, Undefined),
     Ev("complete", "", Undefined, Undefined, Undefined, Undefined),
     NotAnEvent}

NextFrames ==
    \/ SendMessage(TRUE, FALSE)
    \/ \E s \in DOMAIN sends : FetchOk(s)
    \/ \E s \in DOMAIN sends : FetchFail(s)
    \/ \E s \in DOMAIN sends : \E event \in FrameEvents : Deliver(s, event)
    \/ \E s \in DOMAIN sends : StreamEnd(s)
    \/ \E s \in DOMAIN sends : ReadFail(s)
    \/ stopStreaming
    \/ clearConversation

SpecFrames == Init /\ [][NextFrames]_vars

\* ----------------------------------------------------------- tool panel
\* ImprovedFloatingToolPanel's effect (43-107) derives the executions it shows
\* from the props streamingEvents and toolCalls each time one of them changes.
\* An entry of its executionMap is modelled by its key, name, status, result
\* and error; the map keeps insertion order, and the final sort by startTime
\* only permutes the entries.
PanelKey(kind, id, at) == [kind |-> kind, id |-> id, at |-> at]

\* const callId = call_id || `${tool_name}_${event.timestamp}`; the arrival
\* index k of the event stands for its timestamp
panelCallId(event, k) ==
    IF event.call_id # Undefined THEN PanelKey("call_id", event.call_id, 0)
    ELSE PanelKey("name_timestamp", event.tool_name, k)

has(map, key) == \E i \in DOMAIN map : map[i].key = key

\* streamingEvents.forEach, from the k-th event on
RECURSIVE forEachStreamingEvent(_, _, _)
forEachStreamingEvent(evs, k, map) ==
    IF k > Len(evs) THEN map
    ELSE LET event == evs[k]
             callId == panelCallId(event, k)
             responseId == PanelKey("call_id", event.response_id, 0)
         IN forEachStreamingEvent(evs, k + 1,
              CASE event.type = "tool_call" /\ ~has(map, callId) ->
                     Append(map, [key |-> callId,
                                  name |-> IF event.tool_name = Undefined
                                           THEN "Unknown Tool" ELSE event.tool_name,
                                  status |-> "running", result |-> Undefined,
                                  error |-> Undefined])
                [] event.type = "tool_response" /\ event.response_id # Undefined
                      /\ has(map, responseId) ->
                     [i \in DOMAIN map |->
                         IF map[i].key = responseId
                         THEN [map[i] EXCEPT !.status = "completed",
                                             !.result = event.raw_response]
                         ELSE map[i]]
                [] OTHER -> map)

\* toolCalls.forEach, from the k-th call on: a call is added when no entry of
\* the map has its name
RECURSIVE forEachToolCall(_, _, _)
forEachToolCall(calls, k, map) ==
    IF k > Len(calls) THEN map
    ELSE forEachToolCall(calls, k + 1,
            IF \E i \in DOMAIN map : map[i].name = calls[k].name THEN map
            ELSE Append(map, [key |-> PanelKey("toolCall", "", calls[k].id),
                              name |-> calls[k].name, status |-> calls[k].status,
                              result |-> calls[k].result, error |-> calls[k].error]))

\* the executions the panel shows for the props (events, calls)
executionMap(events, calls) ==
    forEachToolCall(calls, 1, forEachStreamingEvent(events, 1, <<>>))

processedExecutions == executionMap(streamingEvents, toolCalls)

\* Two turns of one tool: its call, its response, an error.
PanelEvents ==
    {Ev("tool_call", "", "calc", "c1", Undefined, Undefined),
     Ev("tool_response", "", "calc", Undefined, "c1", "r"),
     Ev("error", "e", Undefined, Undefined, Undefined, Undefined)}

InitPanel == HookInitWith(MaxPanelWork) /\ DecoderIdle

NextPanel ==
    \/ SendMessage(TRUE, FALSE)
    \/ \E s \in DOMAIN sends : FetchOk(s)
    \/ \E s \in DOMAIN sends : FetchFail(s)
    \/ \E s \in DOMAIN sends : \E event \in PanelEvents : Deliver(s, event)
    \/ \E s \in DOMAIN sends : StreamEnd(s)
    \/ \E s \in DOMAIN sends : ReadFail(s)
    \/ stopStreaming
    \/ clearConversation

SpecPanel == InitPanel /\ [][NextPanel]_vars

\* ------------------------------------------------------- frame decoder
\* StreamingService.streamAgent, lines 106-139.  Text is a sequence of
\* characters, a chunk a sequence of bytes; the character "é" is the two
\* bytes "C3" "A9", every other character is one byte.
\* lines of the response body in one behaviour
MaxLines == 2

NL == "\n"
Prefix == <<"d", "a", "t", "a", ":", " ">>
DoneMark == <<"[", "D", "O", "N", "E", "]">>
Replacement == "?"

\* decoder.decode(value, {stream: true}) on the bytes kept from the last call
\* followed by the chunk: the decoded text and the bytes of an incomplete
\* character at the end, which are kept for the next call
RECURSIVE decode(_)
decode(bytes) ==
    IF bytes = <<>> THEN [text |-> <<>>, held |-> <<>>]
    ELSE IF bytes[1] = "C3"
    THEN IF Len(bytes) = 1 THEN [text |-> <<>>, held |-> bytes]
         ELSE IF bytes[2] = "A9"
         THEN LET r == decode(SubSeq(bytes, 3, Len(bytes)))
              IN [text |-> <<"é">> \o r.text, held |-> r.held]
         ELSE LET r == decode(Tail(bytes))
              IN [text |-> <<Replacement>> \o r.text, held |-> r.held]
    ELSE LET r == decode(Tail(bytes))
         IN [text |-> <<IF bytes[1] = "A9" THEN Replacement ELSE bytes[1]>> \o r.text,
             held |-> r.held]

\* text.split('\n'): the pieces between the newlines, the last one included
RECURSIVE split(_)
split(text) ==
    IF \A i \in DOMAIN text : text[i] # NL THEN <<text>>
    ELSE LET k == CHOOSE i \in DOMAIN text :
                      text[i] = NL /\ \A j \in 1..(i - 1) : text[j] # NL
         IN <<SubSeq(text, 1, k - 1)>> \o split(SubSeq(text, k + 1, Len(text)))

\* a buffer that forgets the partial line
pop_dropped(pieces) == <<>>

\* buffer = lines.pop() || ''
pop(pieces) == pieces[Len(pieces)]

\* line.startsWith('data: ')
startsWith(line, prefix) ==
    Len(line) >= Len(prefix) /\ SubSeq(line, 1, Len(prefix)) = prefix

\* line.slice(6)
slice(line, n) == SubSeq(line, n + 1, Len(line))

\* JSON.parse on the payloads the model sends: the two well-formed frames
\* parse to their events, every other text throws
Frame(c) == <<"{", c, "}">>
JSONparse(data) ==
    IF data = Frame("a") \/ data = Frame("é")
    THEN [ok |-> TRUE,
          value |-> Ev("content", data[2], Undefined, Undefined, Undefined, Undefined)]
    ELSE [ok |-> FALSE, value |-> Undefined]

\* a loop that lets the exception of JSON.parse out: the stream ends at the
\* first line that does not parse
RECURSIVE forLines_throws(_, _)
forLines_throws(lines, out) ==
    IF lines = <<>> THEN [emitted |-> out, returned |-> FALSE]
    ELSE IF ~startsWith(lines[1], Prefix) THEN forLines_throws(Tail(lines), out)
    ELSE LET data == slice(lines[1], 6)
         IN IF data = DoneMark THEN [emitted |-> out, returned |-> TRUE]
            ELSE IF JSONparse(data).ok
            THEN forLines_throws(Tail(lines), Append(out, JSONparse(data).value))
            ELSE [emitted |-> out, returned |-> TRUE]

\* a loop without the "[DONE]" test: the line goes to JSON.parse like any other
RECURSIVE forLines_noDone(_, _)
forLines_noDone(lines, out) ==
    IF lines = <<>> THEN [emitted |-> out, returned |-> FALSE]
    ELSE IF ~startsWith(lines[1], Prefix) THEN forLines_noDone(Tail(lines), out)
    ELSE LET data == slice(lines[1], 6)
         IN IF JSONparse(data).ok
            THEN forLines_noDone(Tail(lines), Append(out, JSONparse(data).value))
            ELSE forLines_noDone(Tail(lines), out)

\* the for loop over the complete lines of one chunk: the events passed to
\* onEvent after `out`, and whether a "[DONE]" line made streamAgent return
RECURSIVE forLines(_, _)
forLines(lines, out) ==
    IF lines = <<>> THEN [emitted |-> out, returned |-> FALSE]
    ELSE IF ~startsWith(lines[1], Prefix) THEN forLines(Tail(lines), out)
    ELSE LET data == slice(lines[1], 6)
         IN IF data = DoneMark THEN [emitted |-> out, returned |-> TRUE]
            ELSE IF JSONparse(data).ok
            THEN forLines(Tail(lines), Append(out, JSONparse(data).value))
            ELSE forLines(Tail(lines), out)

\* the lines a server may send, as bytes
DataLine(payload) == Prefix \o payload
WireLines ==
    {DataLine(Frame("a")), DataLine(<<"{", "C3", "A9", "}">>), DataLine(<<"{", "a">>),
     DataLine(DoneMark), <<"x">>, <<>>, <<"d", "a", "t", "a", ":">> \o Frame("a")}
\* what may follow the last newline
WireTails == {<<>>, <<"d", "a">>, DataLine(Frame("a"))}

RECURSIVE Wires(_)
Wires(n) ==
    IF n = 0 THEN WireTails
    ELSE Wires(n - 1) \cup {l \o <<NL>> \o w : l \in WireLines, w \in Wires(n - 1)}

InitDecoder ==
    /\ HookInit
    /\ wire \in Wires(MaxLines)
    /\ rpos = 0
    /\ held = <<>>
    /\ buffer = <<>>
    /\ emitted = <<>>
    /\ dpc = "read"
    /\ completedHeld = FALSE

\* reader.read() resolves with a chunk of n bytes: one turn of the while loop
ReadChunk(n) ==
    /\ dpc = "read"
    /\ rpos + n <= Len(wire)
    /\ LET value == SubSeq(wire, rpos + 1, rpos + n)
           decoded == decode(held \o value)
           pieces == split(buffer \o decoded.text)
           lines == SubSeq(pieces, 1, Len(pieces) - 1)
           loop == forLines(lines, emitted)
       IN /\ rpos' = rpos + n
          /\ held' = decoded.held
          /\ buffer' = pop(pieces)
          /\ emitted' = loop.emitted
          /\ dpc' = IF loop.returned THEN "returned" ELSE "read"
          /\ completedHeld' =
                (completedHeld
                 \/ (buffer # <<>> /\ lines # <<>>
                     /\ forLines(<<lines[1]>>, <<>>).emitted # <<>>))
    /\ UNCHANGED wire
    /\ UNCHANGED hook

\* a loop end that treats what is left in the buffer as a last line
ReadDone_flushes ==
    /\ dpc = "read"
    /\ rpos = Len(wire)
    /\ dpc' = "returned"
    /\ emitted' = forLines(<<buffer>>, emitted).emitted
    /\ UNCHANGED <<wire, rpos, held, buffer, completedHeld>>
    /\ UNCHANGED hook

\* reader.read() resolves with done: the loop breaks and streamAgent returns
ReadDone ==
    /\ dpc = "read"
    /\ rpos = Len(wire)
    /\ dpc' = "returned"
    /\ UNCHANGED <<wire, rpos, held, buffer, emitted, completedHeld>>
    /\ UNCHANGED hook

NextDecoder ==
    \/ \E n \in 1..Len(wire) : ReadChunk(n)
    \/ ReadDone

SpecDecoder == InitDecoder /\ [][NextDecoder]_vars

\* ---------------------------------------------------------------- claims
HasMessage(msgs, id) == \E i \in DOMAIN msgs : msgs[i].id = id
Message(msgs, id) == msgs[CHOOSE i \in DOMAIN msgs : msgs[i].id = id]

\* the concatenation, in order, of the content fields of the content events
RECURSIVE ConcatContent(_)
ConcatContent(evs) ==
    IF evs = <<>> THEN ""
    ELSE (IF evs[1].type = "content" THEN evs[1].content ELSE "") \o ConcatContent(Tail(evs))

ContentEvents == {e \in SessionEvents : e.type = "content"}

\* a frame was applied for send s in this step
Applied(s) == Len(sends'[s].events) > Len(sends[s].events)

\* C1: the assistant message of a streaming send holds the in-order
\* concatenation of the content fields of the content events delivered so far
\* for that send, and a step changes a message's content only by appending one
\* content event's text.
C1_ContentIsConcatenation ==
    /\ [](\A s \in DOMAIN sends :
            HasMessage(messages, assistantMessageId(s)) =>
                Message(messages, assistantMessageId(s)).content
                    = ConcatContent(sends[s].events))
    /\ [][\A s \in DOMAIN sends :
            (HasMessage(messages, assistantMessageId(s))
             /\ HasMessage(messages', assistantMessageId(s))) =>
                LET before == Message(messages, assistantMessageId(s)).content
                    after == Message(messages', assistantMessageId(s)).content
                IN \/ after = before
                   \/ \E e \in ContentEvents : after = before \o e.content]_vars

\* a finished stream whose message shows "ab" after content "a", content "b"
C1_Witness ==
    \E s \in DOMAIN sends :
        /\ sends[s].pc = "done"
        /\ Len(sends[s].events) >= 2
        /\ HasMessage(messages, assistantMessageId(s))
        /\ Message(messages, assistantMessageId(s)).content = "ab"

\* C2: at most one assistant message has streaming = TRUE, and if one has, it
\* is the last message of the list.
C2_SingleStreamingMessage ==
    /\ Cardinality({i \in DOMAIN messages :
                      messages[i].type = "assistant" /\ messages[i].streaming}) <= 1
    /\ \A i \in DOMAIN messages : messages[i].streaming => i = Len(messages)

\* C3: a sendMessage call made while a stream is in flight changes nothing of
\* ConversationState and opens no request.
C3_SendWhileStreamingIsNoOp ==
    [][(StreamInFlight /\ Len(sends') = Len(sends) + 1) =>
          (UNCHANGED conv /\ Last(sends').pc = "done")]_vars

\* C4: once stopStreaming() was called during a streaming send, isStreaming is
\* false and no send has a further event applied.
C4_NoEventAfterStop ==
    /\ [](stopCalled => ~isStreaming)
    /\ [][stopCalled => \A s \in DOMAIN sends : ~Applied(s)]_vars

\* C5: the assistant message of a cancelled streaming send has streaming =
\* FALSE and the content accumulated up to the cancellation.
C5_CancelledMessageNotStreaming ==
    \A s \in DOMAIN sends :
        (sends[s].outcome = "aborted" /\ sends[s].useStreaming
         /\ HasMessage(messages, assistantMessageId(s))) =>
            /\ ~Message(messages, assistantMessageId(s)).streaming
            /\ Message(messages, assistantMessageId(s)).content = sends[s].fullContent

\* the tool executions a step changed
Changed == {i \in DOMAIN toolCalls :
               i \in DOMAIN toolCalls' /\ toolCalls'[i] # toolCalls[i]}

\* C6: a tool_response whose response_id is the call_id of an execution
\* changes at most one execution, and only one made by the tool_call with that
\* call_id; every other execution, same tool name included, is unchanged.
C6_ResponseChangesOnlyItsExecution ==
    [][\A s \in DOMAIN sends :
          (Applied(s) /\ Last(sends'[s].events).type = "tool_response"
           /\ Last(sends'[s].events).response_id # Undefined
           /\ \E i \in DOMAIN toolCalls :
                 toolCalls[i].callId = Last(sends'[s].events).response_id) =>
              LET event == Last(sends'[s].events)
              IN /\ Len(toolCalls') = Len(toolCalls)
                 /\ Cardinality(Changed) <= 1
                 /\ \A i \in Changed :
                       toolCalls[i].callId = event.response_id]_vars

\* C7: after a tool_response with response_id c, every execution made by a
\* tool_call with call_id c is completed with a duration that is its finish
\* time minus its start time, never negative.
C7_MatchedResponseCompletes ==
    [][\A s \in DOMAIN sends :
          (Applied(s) /\ Last(sends'[s].events).type = "tool_response"
           /\ Last(sends'[s].events).response_id # Undefined) =>
              \A i \in DOMAIN toolCalls :
                  toolCalls[i].callId = Last(sends'[s].events).response_id =>
                      /\ toolCalls'[i].status = "completed"
                      /\ toolCalls'[i].duration >= 0
                      /\ toolCalls'[i].duration <= now' - toolCalls'[i].timestamp]_vars

\* C8: a tool_response whose response_id is the call_id of no execution adds
\* and changes no execution and sets no error; it is appended to the events.
C8_UnmatchedResponseChangesNothing ==
    [][\A s \in DOMAIN sends :
          (Applied(s) /\ Last(sends'[s].events).type = "tool_response"
           /\ Last(sends'[s].events).response_id # Undefined
           /\ \A i \in DOMAIN toolCalls :
                 toolCalls[i].callId # Last(sends'[s].events).response_id) =>
              /\ toolCalls' = toolCalls
              /\ error' = error
              /\ messages' = messages
              /\ streamingEvents' = Append(streamingEvents, Last(sends'[s].events))]_vars

\* C9: when a streaming send has ended, its assistant message's events list is
\* the list of the events delivered for it, in arrival order.
C9_MessageEventsAreAllEvents ==
    \A s \in DOMAIN sends :
        (sends[s].useStreaming /\ sends[s].pc = "done"
         /\ HasMessage(messages, assistantMessageId(s))) =>
            Message(messages, assistantMessageId(s)).events = sends[s].events

\* the whole body as text
WireText == decode(wire).text

\* the events of the complete lines of a text, read character by character:
\* `line` is the line being read, `out` the events so far
RECURSIVE Scan(_, _, _)
Scan(text, line, out) ==
    IF text = <<>> THEN out
    ELSE IF text[1] # NL THEN Scan(Tail(text), Append(line, text[1]), out)
    ELSE IF ~startsWith(line, Prefix) THEN Scan(Tail(text), <<>>, out)
    ELSE IF slice(line, 6) = DoneMark THEN out
    ELSE IF JSONparse(slice(line, 6)).ok
    THEN Scan(Tail(text), <<>>, Append(out, JSONparse(slice(line, 6)).value))
    ELSE Scan(Tail(text), <<>>, out)

\* the events of the unsplit stream: one per well-formed "data: " line that
\* ends with a newline and comes before the first "[DONE]" line, in wire order
UnsplitEvents == Scan(WireText, <<>>, <<>>)

IsPrefix(a, b) == Len(a) <= Len(b) /\ SubSeq(b, 1, Len(a)) = a

\* C10: however the body is cut into chunks, the events passed to onEvent are
\* those of the unsplit stream, one per well-formed "data: " line in wire
\* order: a prefix of them while reading, all of them once streamAgent
\* returned.
C10_ChunkingDoesNotChangeEvents ==
    /\ IsPrefix(emitted, UnsplitEvents)
    /\ dpc = "returned" => emitted = UnsplitEvents

\* streamAgent returned two events, one from a line cut by a chunk boundary
C10_Witness ==
    /\ dpc = "returned"
    /\ completedHeld
    /\ Len(emitted) >= 2

\* the newline-terminated lines of a text
CompleteLinesOf(text) == LET p == split(text) IN SubSeq(p, 1, Len(p) - 1)
CompleteLines == CompleteLinesOf(WireText)

IsData(l) == startsWith(l, Prefix)
IsDone(l) == IsData(l) /\ slice(l, 6) = DoneMark
Malformed(l) == IsData(l) /\ ~IsDone(l) /\ ~JSONparse(slice(l, 6)).ok
WellFormed(l) == IsData(l) /\ ~IsDone(l) /\ JSONparse(slice(l, 6)).ok

\* the index of the first "[DONE]" line, or one past the last line
FirstDone(lines) ==
    IF \E i \in DOMAIN lines : IsDone(lines[i])
    THEN CHOOSE i \in DOMAIN lines :
             IsDone(lines[i]) /\ \A j \in 1..(i - 1) : ~IsDone(lines[j])
    ELSE Len(lines) + 1

\* the lines before the first "[DONE]" line
LiveLines == SubSeq(CompleteLines, 1, FirstDone(CompleteLines) - 1)

\* how many of the first j lines are well-formed
WellFormedUpTo(lines, j) == Cardinality({i \in 1..j : WellFormed(lines[i])})

\* C11: a "data: " line that is not valid JSON is skipped and does not end the
\* stream: once streamAgent returned, every well-formed line before "[DONE]",
\* also one that follows a malformed line, has had its event passed to
\* onEvent, and nothing else was passed.
C11_BadFrameIsSkipped ==
    dpc = "returned" =>
        /\ Len(emitted) = WellFormedUpTo(LiveLines, Len(LiveLines))
        /\ \A j \in DOMAIN LiveLines :
               WellFormed(LiveLines[j]) =>
                   emitted[WellFormedUpTo(LiveLines, j)]
                       = JSONparse(slice(LiveLines[j], 6)).value

\* a malformed line came before a well-formed line, whose event was delivered
C11_Witness ==
    /\ dpc = "returned"
    /\ \E i, j \in DOMAIN LiveLines :
           i < j /\ Malformed(LiveLines[i]) /\ WellFormed(LiveLines[j])
    /\ Len(emitted) >= 1

\* a complete "[DONE]" line is among the bytes read so far
DoneRead ==
    \E l \in {CompleteLinesOf(decode(SubSeq(wire, 1, rpos)).text)[i] :
                 i \in DOMAIN CompleteLinesOf(decode(SubSeq(wire, 1, rpos)).text)} :
        IsDone(l)

\* C12: once a "[DONE]" line has been read, streamAgent has returned with the
\* events of the lines before it only, and after its return no event is
\* passed to onEvent and nothing more is read.
C12_DoneEndsTheStream ==
    /\ [](DoneRead =>
            /\ dpc = "returned"
            /\ Len(emitted) = WellFormedUpTo(LiveLines, Len(LiveLines)))
    /\ [][dpc = "returned" => (emitted' = emitted /\ rpos' = rpos /\ dpc' = dpc)]_vars

\* streamAgent returned at "[DONE]" with a well-formed line after it, in a
\* chunk that was read or in bytes left unread
C12_Witness ==
    /\ dpc = "returned"
    /\ DoneRead
    /\ \E j \in DOMAIN CompleteLines :
           j > FirstDone(CompleteLines) /\ WellFormed(CompleteLines[j])

\* the frame applied for send s in this step
AppliedEvent(s) == Last(sends'[s].events)

\* C13: an error event sets error to the event's content and turns every
\* running execution into an error carrying that content; the executions that
\* are not running, and every other field of the running ones, stay as they
\* were, and no execution is added or removed.
C13_ErrorEventFailsRunningCalls ==
    [][\A s \in DOMAIN sends :
          (Applied(s) /\ AppliedEvent(s).type = "error") =>
              /\ error' = AppliedEvent(s).content
              /\ Len(toolCalls') = Len(toolCalls)
              /\ \A i \in DOMAIN toolCalls :
                     IF toolCalls[i].status = "running"
                     THEN toolCalls'[i] = [toolCalls[i] EXCEPT
                                             !.status = "error",
                                             !.error = AppliedEvent(s).content]
                     ELSE toolCalls'[i] = toolCalls[i]]_vars

\* an error event arrived while an execution was running
C13_Witness ==
    /\ error = "e"
    /\ streamingEvents # <<>>
    /\ Last(streamingEvents).type = "error"
    /\ \E i \in DOMAIN toolCalls :
           toolCalls[i].status = "error" /\ toolCalls[i].error = "e"

\* send s's request was rejected in this step: its fetch failed, its read
\* failed, or it was aborted
TransportFailed(s) ==
    sends[s].outcome = "pending" /\ sends'[s].outcome \in {"failed", "aborted"}

\* C14: when a streaming request fails before any event was received, the
\* send ends with error set and the conversation holds no assistant message
\* of that send.
C14_EarlyFailureLeavesNoMessage ==
    [][\A s \in DOMAIN sends :
          (TransportFailed(s) /\ sends[s].useStreaming
           /\ sends[s].pc = "fetch" /\ sends'[s].outcome = "failed") =>
              /\ sends'[s].pc = "done"
              /\ error' = FailMsg
              /\ ~HasMessage(messages', assistantMessageId(s))]_vars

\* C15: when the transport fails after events were applied, the messages, the
\* tool executions and the event log are what they were, the message of the
\* send still shows the accumulated content, isStreaming is false and error
\* is the failure's message.
C15_MidStreamFailureKeepsEffects ==
    [][\A s \in DOMAIN sends :
          (TransportFailed(s) /\ sends[s].pc = "read" /\ sends[s].events # <<>>) =>
              /\ messages' = messages
              /\ toolCalls' = toolCalls
              /\ streamingEvents' = streamingEvents
              /\ sends'[s].events = sends[s].events
              /\ HasMessage(messages, assistantMessageId(s)) =>
                     Message(messages', assistantMessageId(s)).content
                         = ConcatContent(sends[s].events)
              /\ ~isStreaming'
              /\ error' = (IF sends'[s].outcome = "failed" THEN FailMsg ELSE AbortMsg)]_vars

\* a read failed after a content event and a tool call: both are still there
C15_Witness ==
    \E s \in DOMAIN sends :
        /\ sends[s].outcome = "failed"
        /\ Len(sends[s].events) >= 2
        /\ error = FailMsg
        /\ ~isStreaming
        /\ toolCalls # <<>>
        /\ HasMessage(messages, assistantMessageId(s))
        /\ Message(messages, assistantMessageId(s)).content = "a"

\* C16: when a streaming send ends with a transport error, no tool execution
\* is left running.
C16_TransportErrorFailsRunningCalls ==
    [][\A s \in DOMAIN sends :
          (TransportFailed(s) /\ sends[s].useStreaming) =>
              \A i \in DOMAIN toolCalls :
                  toolCalls[i].status = "running" =>
                      toolCalls'[i].status = "error"]_vars

\* the tool executions after the events evs are applied to calls with the
\* clock standing at t
RECURSIVE ReplayToolCalls(_, _, _)
ReplayToolCalls(evs, calls, t) ==
    IF evs = <<>> THEN calls
    ELSE ReplayToolCalls(Tail(evs),
            CASE evs[1].type = "tool_call" ->
                   addToolCall(calls, toolCallId(calls), evs[1], t)
              [] evs[1].type = "tool_response" -> onToolResponse(calls, evs[1], t)
              [] evs[1].type = "error" -> onErrorEvent(calls, evs[1])
              [] OTHER -> calls,
            t)

\* what of an execution is compared between two replays: everything but the
\* wall-clock time of its start
Structure(calls) ==
    [i \in DOMAIN calls |->
        [id |-> calls[i].id, name |-> calls[i].name, status |-> calls[i].status,
         duration |-> calls[i].duration, result |-> calls[i].result,
         error |-> calls[i].error]]

\* the conversation is fresh but for one send and the events of its stream
FreshReplay ==
    /\ Len(sends) = 1
    /\ sends[1].useStreaming
    /\ streamingEvents = sends[1].events

\* C17: the state a fresh conversation reaches by an event sequence is the
\* same in every replay: its tool executions (ids, statuses, durations,
\* results) are those of the replay in which the clock stands still.
C17_ReplayIsDeterministic ==
    FreshReplay =>
        Structure(toolCalls) = Structure(ReplayToolCalls(sends[1].events, <<>>, 0))

\* C18: a step that empties a conversation that had messages (only
\* clearConversation does) also empties the tool executions and the event log
\* and resets error, and leaves isLoading, isStreaming, the abort controller
\* and every request, in flight or not, as they were.
C18_ClearLeavesStreamAlone ==
    [][(messages # <<>> /\ messages' = <<>>) =>
          /\ toolCalls' = <<>>
          /\ streamingEvents' = <<>>
          /\ error' = Null
          /\ UNCHANGED <<isLoading, isStreaming, abortControllerRef, sends>>]_vars

\* the conversation was cleared while a stream was in flight, and the stream
\* went on: an event was applied after the clear
C18_Witness ==
    \E s \in DOMAIN sends :
        /\ sends[s].pc = "read"
        /\ isLoading /\ isStreaming
        /\ abortControllerRef = s
        /\ ~HasMessage(messages, assistantMessageId(s))
        /\ streamingEvents # <<>>
        /\ Len(streamingEvents) < Len(sends[s].events)

Finished(status) == status \in {"completed", "error"}
Unfinished(status) == status \in {"running", "pending"}

\* how many tool_call events the first k sends received
RECURSIVE CallEventsUpTo(_)
CallEventsUpTo(k) ==
    IF k = 0 THEN 0
    ELSE Cardinality({i \in DOMAIN sends[k].events :
                         sends[k].events[i].type = "tool_call"})
         + CallEventsUpTo(k - 1)

\* no clearConversation() since the first tool_call event: the hook still
\* holds one execution per tool_call event
NoClearSinceCalls == Len(toolCalls) = CallEventsUpTo(Len(sends))

\* C19: short of clear(), a finished tool execution is never shown unfinished
\* again: a step leaves the status of a completed or failed execution of the
\* hook as it is, and an execution the panel showed as completed or error at
\* the events of some turn is not in the panel's list as running or pending.
C19_StatusNeverMovesBack ==
    /\ [][\A i \in DOMAIN toolCalls :
            (i \in DOMAIN toolCalls' /\ Finished(toolCalls[i].status)) =>
                toolCalls'[i].status = toolCalls[i].status]_vars
    /\ [](NoClearSinceCalls =>
            \A s \in DOMAIN sends :
                LET shown == executionMap(sends[s].events, <<>>)
                IN \A i \in DOMAIN shown :
                       Finished(shown[i].status) =>
                           \A j \in DOMAIN processedExecutions :
                               processedExecutions[j].key = shown[i].key =>
                                   ~Unfinished(processedExecutions[j].status))

Idle == ~isLoading /\ ~isStreaming

\* C20: a sendMessage call takes the conversation out of Idle (isLoading, and
\* isStreaming for a streaming send), and when the transport ends or fails
\* every request, the conversation is Idle again with no request in flight,
\* however the stream ended; with no request in flight it is Idle.
C20_EverySendReturnsToIdle ==
    /\ [][Len(sends') > Len(sends) =>
            (isLoading' /\ isStreaming' = Last(sends').useStreaming)]_vars
    /\ [](~AnyInFlight => Idle)
    /\ (AnyInFlight ~> (Idle /\ ~AnyInFlight))

\* a stream that delivered events has ended and the conversation is Idle
C20_Witness ==
    /\ Idle
    /\ ~AnyInFlight
    /\ \E s \in DOMAIN sends :
           sends[s].outcome \in {"ended", "failed", "aborted"}
           /\ sends[s].events # <<>>

\* the most recently created running execution with that tool name, if any
MostRecentRunning(calls, name) ==
    {i \in DOMAIN calls :
        /\ calls[i].name = name /\ calls[i].status = "running"
        /\ \A j \in DOMAIN calls :
              (calls[j].name = name /\ calls[j].status = "running") => j <= i}

\* C21: a tool_response without a response_id changes only the most recently
\* created running execution of its tool name, which it completes; older
\* running executions of that name stay running.
C21_FallbackCompletesMostRecentOnly ==
    [][\A s \in DOMAIN sends :
          (Applied(s) /\ AppliedEvent(s).type = "tool_response"
           /\ AppliedEvent(s).response_id = Undefined) =>
              /\ Len(toolCalls') = Len(toolCalls)
              /\ Changed = MostRecentRunning(toolCalls, AppliedEvent(s).tool_name)
              /\ \A i \in Changed : toolCalls'[i].status = "completed"]_vars

\* C22: a tool_call whose call_id is the call_id of a recorded execution
\* creates no second execution: the table is left as it was.
C22_RepeatedCallIdCreatesNothing ==
    [][\A s \in DOMAIN sends :
          (Applied(s) /\ AppliedEvent(s).type = "tool_call"
           /\ AppliedEvent(s).call_id # Undefined
           /\ \E i \in DOMAIN toolCalls :
                 toolCalls[i].callId = AppliedEvent(s).call_id) =>
              toolCalls' = toolCalls]_vars

\* C23: a tool_result event does to the tool executions what a tool_response
\* event with the same metadata does: its target is completed with the
\* result.
C23_ToolResultIsToolResponse ==
    [][\A s \in DOMAIN sends :
          (Applied(s) /\ AppliedEvent(s).type = "tool_result") =>
              toolCalls' = onToolResponse(toolCalls, AppliedEvent(s), now')]_vars

\* C24: once the assistant message of a send has streaming = FALSE, a later
\* event of that send's stream leaves the message's content as it is.
C24_ContentFrozenAfterComplete ==
    [][\A s \in DOMAIN sends :
          (Applied(s)
           /\ HasMessage(messages, assistantMessageId(s))
           /\ ~Message(messages, assistantMessageId(s)).streaming) =>
              Message(messages', assistantMessageId(s)).content
                  = Message(messages, assistantMessageId(s)).content]_vars

\* the position in evs of the k-th tool_call event
CallEventIndex(evs, k) ==
    CHOOSE i \in DOMAIN evs :
        /\ evs[i].type = "tool_call"
        /\ Cardinality({j \in 1..i : evs[j].type = "tool_call"}) = k

\* C25: in a turn of a fresh conversation, where the k-th execution of the
\* hook was made by the k-th tool_call event, the panel's list never holds
\* both the entry derived from that event and the entry of that execution.
C25_PanelShowsInvocationOnce ==
    FreshReplay =>
        \A k \in DOMAIN toolCalls :
            ~(/\ has(processedExecutions, PanelKey("toolCall", "", toolCalls[k].id))
              /\ has(processedExecutions,
                     panelCallId(streamingEvents[CallEventIndex(streamingEvents, k)],
                                 CallEventIndex(streamingEvents, k))))

\* C26: in a turn of a fresh conversation, the status the panel shows for the
\* invocation of the k-th tool_call event is the status of the k-th execution
\* of the hook.
C26_PanelStatusIsHookStatus ==
    FreshReplay =>
        \A k \in DOMAIN toolCalls :
            \A j \in DOMAIN processedExecutions :
                processedExecutions[j].key
                    = panelCallId(streamingEvents[CallEventIndex(streamingEvents, k)],
                                  CallEventIndex(streamingEvents, k))
                => processedExecutions[j].status = toolCalls[k].status

\* the stream in flight whose assistant message is gone: the conversation was
\* cleared after that send was made, and no send was made since
ClearedMidStream ==
    /\ sends # <<>>
    /\ Last(sends).useStreaming
    /\ InFlight(Len(sends))
    /\ ~HasMessage(messages, assistantMessageId(Len(sends)))

\* C27: after clearConversation() during a stream and until the next send,
\* messages, toolCalls and streamingEvents are empty, whatever the stream
\* delivers.
C27_ClearedStaysEmpty ==
    ClearedMidStream =>
        /\ messages = <<>>
        /\ toolCalls = <<>>
        /\ streamingEvents = <<>>

\* C28: while the most recent streaming request is in flight, isStreaming is
\* true and abortControllerRef holds that request's controller, so that
\* stopStreaming() aborts it; an earlier send that finishes does not undo
\* this.
C28_InFlightStreamCanBeStopped ==
    (sends # <<>> /\ Last(sends).useStreaming /\ InFlight(Len(sends))) =>
        /\ isStreaming
        /\ abortControllerRef = Len(sends)

\* the text decoded from the bytes read so far
ReadText == decode(SubSeq(wire, 1, rpos)).text

\* C29: at every moment the events passed to onEvent are those of the lines
\* whose ending newline has been read; in particular, when the stream closes
\* with an unterminated last line, that line gives no event.
C29_OnlyTerminatedLinesAreDelivered ==
    emitted = Scan(ReadText, <<>>, <<>>)

\* the stream closed, without "[DONE]", on an unterminated well-formed
\* "data: " line
C29_Witness ==
    /\ dpc = "returned"
    /\ rpos = Len(wire)
    /\ FirstDone(CompleteLines) = Len(CompleteLines) + 1
    /\ WellFormed(Last(split(WireText)))
    /\ CompleteLines # <<>>

\* a value that is an event object
IsEvent(e) == e.type # Undefined

\* C30: a frame that is valid JSON but no event object adds nothing: the
\* event log, the events of every stream and the event count of a completed
\* message hold event objects only.
C30_NonEventFrameChangesNothing ==
    /\ \A i \in DOMAIN streamingEvents : IsEvent(streamingEvents[i])
    /\ \A s \in DOMAIN sends :
          /\ \A i \in DOMAIN sends[s].events : IsEvent(sends[s].events[i])
          /\ HasMessage(messages, assistantMessageId(s)) =>
                LET m == Message(messages, assistantMessageId(s))
                IN /\ \A i \in DOMAIN m.events : IsEvent(m.events[i])
                   /\ m.total_events # NoTotal =>
                         m.total_events
                             <= Cardinality({i \in DOMAIN sends[s].events :
                                               IsEvent(sends[s].events[i])})
====
